---- MODULE Spec2Model ----
(***************************************************************************)
(* Jurisdiction dashboard map: identifier normalisation (dataLoader.ts),   *)
(* record classification, filtering (App) and the geographic join of the   *)
(* filtered identifiers against the county boundary collection (Map.tsx).  *)
(*                                                                         *)
(* Strings are sequences of one-character strings, so that trim, padStart, *)
(* split, toLowerCase, substring and includes are computed character by    *)
(* character as the JavaScript built-ins compute them.                     *)
(***************************************************************************)
EXTENDS Integers, Sequences, FiniteSets, TLC

VARIABLES
    raw,            \* SpecRow: the CSV row handed to normalizeRow
    normalized,     \* SpecRow: what normalizeRow returned (Pending before the call)
    warnings,       \* console.warn output of normalizeRow
    data,           \* App: the loaded DashboardRecord[]
    appliedGovType, \* App: applied government-type filter
    appliedPopSizes,\* App: applied population-size filter
    mounted,        \* USMap: has the effect of the first render run
    countiesData,   \* USMap state: FeatureCollection | null
    citiesData,     \* USMap state: city marker features
    loading,        \* USMap state: loading flag
    inflight,       \* loadGeoData calls suspended at their fetch
    consoleLog,     \* console.log / console.error output of USMap
    started,        \* number of loadGeoData calls made so far
    lastLoad,       \* the loadGeoData call that settled last: inputs and outcome
    error,          \* live App state: the error advisory, null when none
    refreshing,     \* live App state: refreshing flag
    lastUpdated,    \* live App state: time of the last successful load
    feedInflight,   \* loadData calls suspended at fetchDashboardData
    feedStarted,    \* number of loadData calls made so far
    lastFeed,       \* the loadData call that settled last, and the settle history
    pendingGovType, \* App: government type chosen but not yet applied
    pendingPopSizes,\* App: population sizes ticked but not yet applied
    selectedJurisdictions, \* App: identifiers clicked so far
    selectedGEOID,  \* App: identifier handed to the last handleFeatureClick call
    selectedName,   \* App: name of the clicked feature
    selectedFeatureRows, \* App: the detail rows of the modal
    modalOpen,      \* App: is the detail modal open
    clicks,         \* number of feature clicks so far
    snapshot,       \* loadDashboardData: the rows of the bundled snapshot
    collisions      \* loadDashboardData: the name-collision report

vars == <<raw, normalized, warnings, data, appliedGovType, appliedPopSizes,
          mounted, countiesData, citiesData, loading, inflight, consoleLog,
          started, lastLoad, error, refreshing, lastUpdated, feedInflight,
          feedStarted, lastFeed, pendingGovType, pendingPopSizes,
          selectedJurisdictions, selectedGEOID, selectedName, selectedFeatureRows,
          modalOpen, clicks, snapshot, collisions>>

rowVars == <<raw, normalized, warnings>>
mapVars == <<data, appliedGovType, appliedPopSizes, mounted, countiesData,
             citiesData, loading, inflight, consoleLog, started, lastLoad>>
feedVars == <<error, refreshing, lastUpdated, feedInflight, feedStarted, lastFeed>>
pendVars == <<pendingGovType, pendingPopSizes>>
selVars == <<selectedJurisdictions, selectedGEOID, selectedName, selectedFeatureRows,
             modalOpen, clicks>>
loadVars == <<snapshot, collisions>>

----------------------------------------------------------------------------
(* Bounds of the model *)

MaxIdLen == 8       \* longest digit body of a raw identifier
MaxRecords == 3     \* most rows in a loaded dataset
MaxFeatures == 2    \* most features in a fetched boundary collection
MaxFeedLoads == 3   \* most loadData calls followed in SpecFeed
MaxLoads == 2       \* most loadGeoData calls of one USMap
MaxClicks == 2      \* most feature clicks followed in SpecClick
MaxRows == 5        \* most rows of a snapshot in SpecLoad

----------------------------------------------------------------------------
(* JavaScript values *)

Undefined == <<"undefined">>    \* a missing property; no string equals it
Null == [null |-> TRUE]
Pending == [pending |-> TRUE]
NoNumber == <<>>                \* an undefined number field; a number n is <<n>>

Range(s) == {s[i] : i \in 1..Len(s)}

----------------------------------------------------------------------------
(* String built-ins *)

UpperLetters == <<"A","B","C","D","E","F","G","H","I","J","K","L","M",
                  "N","O","P","Q","R","S","T","U","V","W","X","Y","Z">>
LowerLetters == <<"a","b","c","d","e","f","g","h","i","j","k","l","m",
                  "n","o","p","q","r","s","t","u","v","w","x","y","z">>

IsSpace(c) == c \in {" ", "\t"}

RECURSIVE trimStart(_)
trimStart(s) ==
    IF s = <<>> THEN s
    ELSE IF IsSpace(Head(s)) THEN trimStart(Tail(s)) ELSE s

RECURSIVE trimEnd(_)
trimEnd(s) ==
    IF s = <<>> THEN s
    ELSE IF IsSpace(s[Len(s)]) THEN trimEnd(SubSeq(s, 1, Len(s) - 1)) ELSE s

trim(s) == trimEnd(trimStart(s))

toLowerChar(c) ==
    IF \E i \in 1..26 : UpperLetters[i] = c
    THEN LowerLetters[CHOOSE i \in 1..26 : UpperLetters[i] = c]
    ELSE c

toLowerCase(s) == [i \in 1..Len(s) |-> toLowerChar(s[i])]

padStart(s, width) ==
    IF Len(s) >= width THEN s
    ELSE [i \in 1..(width - Len(s)) |-> "0"] \o s

\* s.substring(0, n)
substring0(s, n) == SubSeq(s, 1, IF n < Len(s) THEN n ELSE Len(s))

startsWith(s, p) == Len(p) <= Len(s) /\ SubSeq(s, 1, Len(p)) = p

\* s.includes(sub)
includes(s, sub) ==
    \E i \in 0..(Len(s) - Len(sub)) : SubSeq(s, i + 1, i + Len(sub)) = sub

\* s.split(','): the pieces between commas, empty pieces included
RECURSIVE splitFrom(_, _)
splitFrom(s, acc) ==
    IF s = <<>> THEN <<acc>>
    ELSE IF Head(s) = "," THEN <<acc>> \o splitFrom(Tail(s), <<>>)
    ELSE splitFrom(Tail(s), Append(acc, Head(s)))

split(s) == splitFrom(s, <<>>)

\* array.filter(Boolean) on an array of strings
RECURSIVE filterBoolean(_)
filterBoolean(a) ==
    IF a = <<>> THEN <<>>
    ELSE IF Head(a) = <<>> THEN filterBoolean(Tail(a))
    ELSE <<Head(a)>> \o filterBoolean(Tail(a))

\* /^'+/ replaced by ''
RECURSIVE stripLeadingApostrophes(_)
stripLeadingApostrophes(s) ==
    IF s = <<>> THEN s
    ELSE IF Head(s) = "'" THEN stripLeadingApostrophes(Tail(s)) ELSE s

----------------------------------------------------------------------------
(* Number(x) and Number.isFinite for the values a CSV cell holds: optional  *)
(* surrounding whitespace, optional sign, decimal digits.  Anything else    *)
(* (text, "Infinity") is not finite.                                        *)

DigitChars == <<"0","1","2","3","4","5","6","7","8","9">>
IsDigit(c) == \E i \in 1..10 : DigitChars[i] = c
DigitValue(c) == (CHOOSE i \in 1..10 : DigitChars[i] = c) - 1

RECURSIVE digitsValue(_, _)
digitsValue(s, acc) ==
    IF s = <<>> THEN acc ELSE digitsValue(Tail(s), 10 * acc + DigitValue(Head(s)))

IsDigits(s) == s # <<>> /\ \A i \in 1..Len(s) : IsDigit(s[i])

\* <<n>> when Number(x) is the finite number n, NoNumber otherwise
finiteNumber(x) ==
    LET t == trim(x)
        signed == t # <<>> /\ Head(t) \in {"-", "+"}
        body == IF signed THEN Tail(t) ELSE t
    IN  IF t = <<>> THEN <<0>>
        ELSE IF ~IsDigits(body) THEN NoNumber
        ELSE IF signed /\ Head(t) = "-" THEN <<0 - digitsValue(body, 0)>>
        ELSE <<digitsValue(body, 0)>>

----------------------------------------------------------------------------
(* dataLoader.ts: Identifier Normalizer and Record Classifier *)

sCounty == <<"C","o","u","n","t","y">>
sCity == <<"C","i","t","y">>
sCountyLower == <<"c","o","u","n","t","y">>
sOtherPublicAgency == <<"O","t","h","e","r"," ","P","u","b","l","i","c"," ",
                        "A","g","e","n","c","y">>
sUnifiedMarker == <<"U","n","i","f","i","e","d"," ","C","i","t","y","-",
                    "C","o","u","n","t","y"," ","G","o","v","e","r","n",
                    "m","e","n","t">>
\* 'Unified City–County': the separator is an en dash, not the hyphen of the marker
sUnifiedLabel == <<"U","n","i","f","i","e","d"," ","C","i","t","y","en-dash",
                   "C","o","u","n","t","y">>
sCityPlusCounty == <<"C","i","t","y"," ","+"," ","C","o","u","n","t","y">>

\* raw.X?.trim() || ''
trimmedOrEmpty(v) == IF v = Undefined THEN <<>> ELSE trim(v)

normalizeId(rawId) == stripLeadingApostrophes(trim(rawId))

\* a normalizer that prepends the missing zeros of the raw length every time
normalizeIdForTypePrepending(id, govType) ==
    LET clean == normalizeId(id)
        type == toLowerCase(trim(govType))
        isCountyOnly == type = sCountyLower
    IN  [i \in 1..(IF isCountyOnly THEN 5 ELSE 7) |-> "0"] \o clean

normalizeIdForType(id, govType) ==
    LET clean == normalizeId(id)
        type == toLowerCase(trim(govType))
        isCountyOnly == type = sCountyLower
    IN  IF isCountyOnly THEN padStart(clean, 5) ELSE padStart(clean, 7)

\* governmentTypeRaw.split(',').map(trim).filter(Boolean)
governmentTypesOf(governmentTypeRaw) ==
    LET parts == split(governmentTypeRaw)
    IN  filterBoolean([i \in 1..Len(parts) |-> trim(parts[i])])

parseCoordinate(v) ==
    IF v = Undefined \/ v = <<>> THEN NoNumber ELSE finiteNumber(v)

\* const unifiedByNotes = notes.includes('Unified City-County Government')
unifiedByNotes(notes) == includes(notes, sUnifiedMarker)

\* the isUnified test overlooking the notes marker (declared types only)
isUnifiedTypesOnly(governmentTypes, notes) ==
    sCity \in Range(governmentTypes) /\ sCounty \in Range(governmentTypes)

\* const isUnified = unifiedByNotes || (hasCity && hasCounty)
isUnified(governmentTypes, notes) ==
    LET hasCity == sCity \in Range(governmentTypes)
        hasCounty == sCounty \in Range(governmentTypes)
    IN  unifiedByNotes(notes) \/ (hasCity /\ hasCounty)

\* the label resolution with the first declared type tried before the others
displayGovernmentTypeFirstTypeFirst(governmentTypes, notes) ==
    IF governmentTypes # <<>> THEN governmentTypes[1]
    ELSE IF unifiedByNotes(notes) THEN sUnifiedLabel
    ELSE sOtherPublicAgency

\* const displayGovernmentType = unifiedByNotes ? ... : isUnified ? ... : (governmentTypes[0] || ...)
displayGovernmentType(governmentTypes, notes) ==
    LET firstOrOther == IF governmentTypes # <<>> THEN governmentTypes[1]
                        ELSE sOtherPublicAgency
    IN  IF unifiedByNotes(notes) THEN sUnifiedLabel
        ELSE IF isUnified(governmentTypes, notes) THEN sCityPlusCounty
        ELSE firstOrOther

normalizeRow(r) ==
    LET jurisdiction == trimmedOrEmpty(r.Jurisdiction)
        rawJurisdictionId == IF r.JurisdictionID = Undefined THEN <<>>
                             ELSE r.JurisdictionID
        url == trimmedOrEmpty(r.URL)
        populationSize == trimmedOrEmpty(r.PopulationSize)
        governmentTypeRaw == trimmedOrEmpty(r.GovernmentType)
        notes == trimmedOrEmpty(r.Notes)
        jurisdictionId == normalizeIdForType(rawJurisdictionId, governmentTypeRaw)
        governmentTypes == governmentTypesOf(governmentTypeRaw)
    IN  IF jurisdictionId = <<>> \/ url = <<>> THEN Null
        ELSE [ jurisdiction |-> jurisdiction,
               jurisdictionId |-> jurisdictionId,
               url |-> url,
               populationSize |-> populationSize,
               governmentTypeRaw |-> governmentTypeRaw,
               governmentTypes |-> governmentTypes,
               isUnified |-> isUnified(governmentTypes, notes),
               displayGovernmentType |-> displayGovernmentType(governmentTypes, notes),
               notes |-> notes,
               latitude |-> parseCoordinate(r.Latitude),
               longitude |-> parseCoordinate(r.Longitude) ]

----------------------------------------------------------------------------
(* dataLoader.ts: loadDashboardData, and App: filteredRows / hasDataIds *)

RECURSIVE loadDashboardData(_)
loadDashboardData(rows) ==
    IF rows = <<>> THEN <<>>
    ELSE LET rec == normalizeRow(Head(rows))
         IN  (IF rec = Null THEN <<>> ELSE <<rec>>) \o loadDashboardData(Tail(rows))

GovernmentTypeFilter == {<<>>, sCity, sCounty, sOtherPublicAgency}

\* the filter callback with 'Other Public Agency' excluding only City records
passesFiltersOtherLacksCity(row, govType, popSizes) ==
    LET isCity == sCity \in Range(row.governmentTypes)
        isCounty == sCounty \in Range(row.governmentTypes)
    IN  /\ ~(govType = sCity /\ ~isCity)
        /\ ~(govType = sCounty /\ ~isCounty)
        /\ ~(govType = sOtherPublicAgency /\ isCity)
        /\ ~(popSizes # {} /\ row.populationSize \notin popSizes)

passesFilters(row, govType, popSizes) ==
    LET isCity == sCity \in Range(row.governmentTypes)
        isCounty == sCounty \in Range(row.governmentTypes)
    IN  /\ ~(govType = sCity /\ ~isCity)
        /\ ~(govType = sCounty /\ ~isCounty)
        /\ ~(govType = sOtherPublicAgency /\ (isCity \/ isCounty))
        /\ ~(popSizes # {} /\ row.populationSize \notin popSizes)

RECURSIVE filterRows(_, _, _)
filterRows(rows, govType, popSizes) ==
    IF rows = <<>> THEN <<>>
    ELSE (IF passesFilters(Head(rows), govType, popSizes) THEN <<Head(rows)>> ELSE <<>>)
         \o filterRows(Tail(rows), govType, popSizes)

filteredRows == filterRows(data, appliedGovType, appliedPopSizes)

\* new Set(ids): the distinct values in first-insertion order
RECURSIVE newSet(_, _)
newSet(ids, acc) ==
    IF ids = <<>> THEN acc
    ELSE newSet(Tail(ids), IF Head(ids) \in Range(acc) THEN acc ELSE Append(acc, Head(ids)))

hasDataIdsOf(rows) == newSet([i \in 1..Len(rows) |-> rows[i].jurisdictionId], <<>>)

hasDataIds == hasDataIdsOf(filteredRows)

populationOptions(rows) ==
    {rows[i].populationSize : i \in 1..Len(rows)} \ {<<>>}

----------------------------------------------------------------------------
(* Map.tsx: USMap.loadGeoData, the geographic join *)

LogEntry(msg, ids, n) == [msg |-> msg, ids |-> ids, n |-> n]

\* String(feature.id).padStart(5, '0'); feature.id is held as String(feature.id)
paddedIdOf(feature) == padStart(feature.id, 5)

\* array.find over a set of matching indices: the first one, 0 when none
firstOf(indices) ==
    IF indices = {} THEN 0
    ELSE CHOOSE i \in indices : \A j \in indices : i <= j

\* idMatchMap as the sequence of its set() calls; get() sees the last one
RECURSIVE idMatchMapOf(_)
idMatchMapOf(features) ==
    IF features = <<>> THEN <<>>
    ELSE << <<paddedIdOf(Head(features)), paddedIdOf(Head(features))>>,
            <<Head(features).id, paddedIdOf(Head(features))>> >>
         \o idMatchMapOf(Tail(features))

mapGet(m, key) ==
    IF \E i \in 1..Len(m) : m[i][1] = key
    THEN m[CHOOSE i \in 1..Len(m) :
               m[i][1] = key /\ \A j \in (i + 1)..Len(m) : m[j][1] # key][2]
    ELSE Undefined

\* countyTag without the secondary path: only the direct 5-digit match, as in
\* the join before unified city-counties were matched by paddedId + '00'
countyTagDirectOnly(feature, idMatchMap, ids) ==
    LET paddedId == paddedIdOf(feature)
        matchedId == mapGet(idMatchMap, paddedId)
    IN  IF matchedId # Undefined /\ matchedId # <<>> /\ matchedId \in Range(ids)
        THEN matchedId
        ELSE Undefined

\* the CSV_ID the filter callback stores on a feature, Undefined when the
\* callback returns false
countyTag(feature, idMatchMap, ids) ==
    LET paddedId == paddedIdOf(feature)
        matchedId == mapGet(idMatchMap, paddedId)
        cityStyleId == paddedId \o <<"0", "0">>
    IN  IF matchedId # Undefined /\ matchedId # <<>> /\ matchedId \in Range(ids)
        THEN matchedId
        ELSE IF cityStyleId \in Range(ids) THEN cityStyleId
        ELSE Undefined

RECURSIVE filteredFeaturesOf(_, _, _)
filteredFeaturesOf(features, idMatchMap, ids) ==
    IF features = <<>> THEN <<>>
    ELSE LET f == Head(features)
             tag == countyTag(f, idMatchMap, ids)
         IN  (IF tag = Undefined THEN <<>>
              ELSE << [ id |-> f.id,
                        geometry |-> f.geometry,
                        properties |-> [name |-> f.properties.name, CSV_ID |-> tag] ] >>)
             \o filteredFeaturesOf(Tail(features), idMatchMap, ids)

RECURSIVE countyLogOf(_, _, _)
countyLogOf(features, idMatchMap, ids) ==
    IF features = <<>> THEN <<>>
    ELSE LET f == Head(features)
             paddedId == paddedIdOf(f)
             tag == countyTag(f, idMatchMap, ids)
         IN  (IF startsWith(paddedId, <<"0", "8", "2">>)
              THEN <<LogEntry("Denver County GeoJSON feature", <<paddedId>>, 0)>>
              ELSE <<>>)
             \o (IF tag = Undefined THEN <<>>
                 ELSE IF tag = paddedId
                 THEN <<LogEntry("County match", <<paddedId>>, 0)>>
                 ELSE <<LogEntry("Unified city-county match", <<paddedId, tag>>, 0)>>)
             \o countyLogOf(Tail(features), idMatchMap, ids)

\* Array.from(hasDataIds).filter(id => id.length === 7)
RECURSIVE cityIdsOf(_)
cityIdsOf(ids) ==
    IF ids = <<>> THEN <<>>
    ELSE (IF Len(Head(ids)) = 7 THEN <<Head(ids)>> ELSE <<>>) \o cityIdsOf(Tail(ids))

\* a parent lookup that falls back to the first feature of any state
parentCountyIndexAnyState(features, cityId) ==
    LET stateCountyFips == substring0(cityId, 5)
        exact == firstOf({i \in 1..Len(features) :
                            paddedIdOf(features[i]) = stateCountyFips})
    IN  IF exact # 0 THEN exact
        ELSE firstOf(1..Len(features))

\* index in geojson.features of the county the marker of cityId is placed in
parentCountyIndex(features, cityId) ==
    LET stateFips == substring0(cityId, 2)
        stateCountyFips == substring0(cityId, 5)
        exact == firstOf({i \in 1..Len(features) :
                            paddedIdOf(features[i]) = stateCountyFips})
    IN  IF exact # 0 THEN exact
        ELSE firstOf({i \in 1..Len(features) :
                        startsWith(paddedIdOf(features[i]), stateFips)})

RECURSIVE sumOf(_)
sumOf(a) == IF a = <<>> THEN 0 ELSE Head(a) + sumOf(Tail(a))

\* a quotient sum / length is kept exact as the pair <<sum, length>>
Quotient(num, den) == <<num, den>>
SameNumber(q, r) == q[2] # 0 /\ r[2] # 0 /\ q[1] * r[2] = r[1] * q[2]

\* a centroid that leaves the closing vertex of the ring out of the mean
centroidOfOpenRing(geometry) ==
    LET coords == SubSeq(geometry.coordinates[1], 1, Len(geometry.coordinates[1]) - 1)
        lngs == [i \in 1..Len(coords) |-> coords[i][1]]
        lats == [i \in 1..Len(coords) |-> coords[i][2]]
    IN  << Quotient(sumOf(lngs), Len(lngs)), Quotient(sumOf(lats), Len(lats)) >>

\* mean longitude and mean latitude of the vertices of coordinates[0]
centroidOf(geometry) ==
    LET coords == geometry.coordinates[1]
        lngs == [i \in 1..Len(coords) |-> coords[i][1]]
        lats == [i \in 1..Len(coords) |-> coords[i][2]]
    IN  << Quotient(sumOf(lngs), Len(lngs)), Quotient(sumOf(lats), Len(lats)) >>

\* allData.find(d => d.jurisdictionId === cityId)?.jurisdiction || 'City'
cityNameOf(allData, cityId) ==
    LET i == firstOf({k \in 1..Len(allData) : allData[k].jurisdictionId = cityId})
    IN  IF i # 0 /\ allData[i].jurisdiction # <<>> THEN allData[i].jurisdiction
        ELSE sCity

canPlaceCity(features, cityId) ==
    LET i == parentCountyIndex(features, cityId)
    IN  i # 0 /\ features[i].geometry.type = "Polygon"

RECURSIVE cityFeaturesOf(_, _, _)
cityFeaturesOf(cityIds, features, allData) ==
    IF cityIds = <<>> THEN <<>>
    ELSE LET cityId == Head(cityIds)
         IN  (IF canPlaceCity(features, cityId)
              THEN << [ id |-> cityId,
                        properties |-> [ name |-> cityNameOf(allData, cityId),
                                         CSV_ID |-> cityId,
                                         isCity |-> TRUE ],
                        geometry |->
                          [ type |-> "Point",
                            coordinates |->
                              centroidOf(features[parentCountyIndex(features, cityId)].geometry) ] ] >>
              ELSE <<>>)
             \o cityFeaturesOf(Tail(cityIds), features, allData)

RECURSIVE cityLogOf(_, _)
cityLogOf(cityIds, features) ==
    IF cityIds = <<>> THEN <<>>
    ELSE (IF canPlaceCity(features, Head(cityIds)) THEN <<>>
          ELSE <<LogEntry("No parent county found for city",
                          <<Head(cityIds), substring0(Head(cityIds), 2)>>, 0)>>)
         \o cityLogOf(Tail(cityIds), features)

RECURSIVE selectIncluding(_, _)
selectIncluding(ids, sub) ==
    IF ids = <<>> THEN <<>>
    ELSE (IF includes(Head(ids), sub) THEN <<Head(ids)>> ELSE <<>>)
         \o selectIncluding(Tail(ids), sub)

\* what loadGeoData logs before it suspends at the fetch
startLogOf(ids) ==
    << LogEntry("Map received hasDataIds", <<>>, Len(ids)),
       LogEntry("Sample IDs from dataset", substring0(ids, 10), 0),
       LogEntry("Denver-related IDs in dataset", selectIncluding(ids, <<"0", "8", "2">>), 0) >>

\* what loadGeoData logs after the boundary collection has arrived
joinLogOf(features, ids, allData) ==
    countyLogOf(features, idMatchMapOf(features), ids)
    \o << LogEntry("Found counties with data", <<>>,
                   Len(filteredFeaturesOf(features, idMatchMapOf(features), ids))),
          LogEntry("Found cities with 7-digit IDs", <<>>, Len(cityIdsOf(ids))) >>
    \o cityLogOf(cityIdsOf(ids), features)
    \o << LogEntry("Created city markers", <<>>,
                   Len(cityFeaturesOf(cityIdsOf(ids), features, allData))) >>

\* the body of loadGeoData up to the await: setLoading(true) and the logs
StartLoadGeoData ==
    /\ started < MaxLoads
    /\ loading' = TRUE
    /\ consoleLog' = consoleLog \o startLogOf(hasDataIds')
    /\ started' = started + 1
    /\ inflight' = inflight \cup
           {[n |-> started + 1, hasDataIds |-> hasDataIds', allData |-> filteredRows']}

\* an effect that calls loadGeoData whatever the size of hasDataIds
RunMapEffectAlways == StartLoadGeoData

\* the effect of USMap on [hasDataIds, allData]
RunMapEffect ==
    IF Len(hasDataIds') > 0 THEN StartLoadGeoData
    ELSE UNCHANGED <<loading, consoleLog, started, inflight>>

\* first render of USMap (App renders it only when data is not empty)
MountMap ==
    /\ ~mounted
    /\ Len(data) # 0
    /\ mounted' = TRUE
    /\ UNCHANGED <<data, appliedGovType, appliedPopSizes>>
    /\ RunMapEffect
    /\ UNCHANGED <<rowVars, feedVars, pendVars, selVars, loadVars, countiesData,
                   citiesData, lastLoad>>

\* the fetch and response.json() of a suspended loadGeoData succeed
GeoResolve(load, geojson) ==
    /\ load \in inflight
    /\ countiesData' =
           [ type |-> "FeatureCollection",
             features |-> filteredFeaturesOf(geojson.features,
                                             idMatchMapOf(geojson.features),
                                             load.hasDataIds) ]
    /\ citiesData' = cityFeaturesOf(cityIdsOf(load.hasDataIds), geojson.features,
                                    load.allData)
    /\ consoleLog' = consoleLog \o joinLogOf(geojson.features, load.hasDataIds, load.allData)
    /\ loading' = FALSE
    /\ inflight' = inflight \ {load}
    /\ lastLoad' = [ outcome |-> "ok", n |-> load.n, hasDataIds |-> load.hasDataIds,
                     allData |-> load.allData, geojson |-> geojson,
                     log |-> joinLogOf(geojson.features, load.hasDataIds, load.allData) ]
    /\ UNCHANGED <<rowVars, feedVars, pendVars, selVars, loadVars, data,
                   appliedGovType, appliedPopSizes, mounted, started>>

\* the fetch or response.json() of a suspended loadGeoData throws
GeoFail(load) ==
    /\ load \in inflight
    /\ consoleLog' = Append(consoleLog, LogEntry("Error loading GeoJSON", <<>>, 0))
    /\ loading' = FALSE
    /\ inflight' = inflight \ {load}
    /\ lastLoad' = [ outcome |-> "failed", n |-> load.n, hasDataIds |-> load.hasDataIds,
                     allData |-> load.allData, geojson |-> Null,
                     log |-> <<LogEntry("Error loading GeoJSON", <<>>, 0)>> ]
    /\ UNCHANGED <<rowVars, feedVars, pendVars, selVars, loadVars, data,
                   appliedGovType, appliedPopSizes, mounted, started,
                   countiesData, citiesData>>

----------------------------------------------------------------------------
(* SpecRow: normalizeRow applied to one CSV row drawn from RowUniverse *)

SampleDigits == <<"4","8","1","1","3","0","0","1","2","7">>
IdBody(n) == [i \in 1..n |-> SampleDigits[((i - 1) % Len(SampleDigits)) + 1]]

RawIds ==
    {Undefined} \cup
    UNION { { IdBody(n),
              <<"'">> \o IdBody(n),
              <<" ", "'", "'">> \o IdBody(n) \o <<" ">>,
              <<"'", " ">> \o IdBody(n) } : n \in 0..MaxIdLen }

RawUrls == {Undefined, <<" ">>, <<" ", "u", " ">>}

RawGovernmentTypes ==
    { Undefined,
      sCounty,
      sCountyLower,
      <<" ">> \o sCounty \o <<" ">>,
      sCounty \o <<",">>,
      sCounty \o <<",", " ">> \o sCounty,
      sCity,
      sCity \o <<",", " ">> \o sCounty,
      sCounty \o <<",">> \o sCity,
      <<"S","p","e","c","i","a","l"," ","D","i","s","t","r","i","c","t">>,
      <<",">> }

RawNotes ==
    { Undefined,
      <<"(">> \o sUnifiedMarker \o <<")">>,
      toLowerCase(sUnifiedMarker) }

RawLatitudes ==
    { Undefined, <<>>, <<" ","3","2">>, <<"a","b","c">>,
      <<"I","n","f","i","n","i","t","y">> }
RawLongitudes == { Undefined, <<"-","9","6">> }

RowUniverse ==
    { [ Jurisdiction |-> <<" ","D","a","l","l","a","s">>,
        JurisdictionID |-> id,
        URL |-> u,
        PopulationSize |-> <<"L">>,
        GovernmentType |-> g,
        Notes |-> n,
        Latitude |-> la,
        Longitude |-> lo ] :
      id \in RawIds, u \in RawUrls, g \in RawGovernmentTypes, n \in RawNotes,
      la \in RawLatitudes, lo \in RawLongitudes }

FeedIdle ==
    /\ error = Null
    /\ refreshing = FALSE
    /\ lastUpdated = Null
    /\ feedInflight = {}
    /\ feedStarted = 0
    /\ lastFeed = Null

SelectionIdle ==
    /\ selectedJurisdictions = {}
    /\ selectedGEOID = Null
    /\ selectedName = <<>>
    /\ selectedFeatureRows = <<>>
    /\ modalOpen = FALSE
    /\ clicks = 0

LoaderIdle ==
    /\ snapshot = <<>>
    /\ collisions = Pending

MapIdle ==
    /\ data = <<>>
    /\ appliedGovType = <<>>
    /\ appliedPopSizes = {}
    /\ mounted = FALSE
    /\ countiesData = Null
    /\ citiesData = <<>>
    /\ loading = TRUE
    /\ inflight = {}
    /\ consoleLog = <<>>
    /\ started = 0
    /\ lastLoad = Null

InitRow ==
    /\ raw \in RowUniverse
    /\ normalized = Pending
    /\ warnings = <<>>
    /\ MapIdle
    /\ FeedIdle
    /\ pendingGovType = <<>>
    /\ pendingPopSizes = {}
    /\ SelectionIdle
    /\ LoaderIdle

\* one iteration of snapshotData.forEach / parsed.data.forEach
NormalizeRow ==
    /\ normalized = Pending
    /\ normalized' = normalizeRow(raw)
    /\ warnings' = IF normalizeRow(raw) = Null
                   THEN Append(warnings, trimmedOrEmpty(raw.Jurisdiction))
                   ELSE warnings
    /\ UNCHANGED <<raw, mapVars, feedVars, pendVars, selVars, loadVars>>

NextRow == NormalizeRow

SpecRow == InitRow /\ [][NextRow]_vars

IsRecord(r) == r # Pending /\ r # Null

\* the identifier cell as normalizeRow reads it: raw['Jurisdiction ID'] ?? ''
RawIdOf(r) == IF r.JurisdictionID = Undefined THEN <<>> ELSE r.JurisdictionID

\* the normalizer's own pure-county test on the row's government type
DeclaredPureCounty(r) ==
    toLowerCase(trim(trimmedOrEmpty(r.GovernmentType))) = sCountyLower

\* C1: every accepted record has an identifier of length exactly 5 when the
\* declared government type is pure county and exactly 7 otherwise,
\* whatever the length of the raw identifier.
C1_WidthExact ==
    IsRecord(normalized) =>
        Len(normalized.jurisdictionId) = (IF DeclaredPureCounty(raw) THEN 5 ELSE 7)

\* C2: a row whose identifier is empty after cleaning is discarded by
\* normalizeRow (null), even if its URL is non-empty.
C2_EmptyIdDiscarded ==
    (normalized # Pending /\ normalizeId(RawIdOf(raw)) = <<>>) => normalized = Null

\* C9: the identifier is padded to width 5 exactly when the classifier's
\* declared types of the same row are exactly {County}, and to width 7 in
\* every other case.
C9_PadWidthFollowsClassifier ==
    IsRecord(normalized) =>
        normalized.jurisdictionId =
            padStart(normalizeId(RawIdOf(raw)),
                     IF Range(normalized.governmentTypes) = {sCounty} THEN 5 ELSE 7)

\* C10: every record whose isUnified flag is true has a 7-digit identifier.
C10_UnifiedIsSevenDigits ==
    (IsRecord(normalized) /\ normalized.isUnified) =>
        Len(normalized.jurisdictionId) = 7

\* the cell as the row carries it, '' when the column is missing
CellOf(v) == IF v = Undefined THEN <<>> ELSE v

\* the notes cell holds the unification marker as a contiguous run of characters
NotesCarryMarker(r) ==
    LET n == CellOf(r.Notes)
        m == sUnifiedMarker
    IN  \E i \in 1..Len(n) :
            /\ i + Len(m) - 1 <= Len(n)
            /\ \A k \in 1..Len(m) : n[i + k - 1] = m[k]

\* type t is one of the comma-separated entries of the government type cell,
\* blanks around an entry not counting
Declares(r, t) ==
    LET g == CellOf(r.GovernmentType)
    IN  \E i \in 1..Len(g) : \E j \in i..Len(g) :
            /\ i = 1 \/ g[i - 1] = ","
            /\ j = Len(g) \/ g[j + 1] = ","
            /\ \A k \in i..j : g[k] # ","
            /\ trim(SubSeq(g, i, j)) = t

\* C11: isUnified is true exactly when the notes contain the marker or the
\* declared types contain both City and County; a row declared only as City
\* with no marker in its notes is not unified.
C11_UnifiedIff ==
    IsRecord(normalized) =>
        /\ normalized.isUnified <=>
               (NotesCarryMarker(raw) \/ (Declares(raw, sCity) /\ Declares(raw, sCounty)))
        /\ (normalized.governmentTypes = <<sCity>> /\ ~NotesCarryMarker(raw))
               => ~normalized.isUnified

C11_Witness ==
    /\ IsRecord(normalized)
    /\ normalized.isUnified
    /\ NotesCarryMarker(raw)
    /\ normalized.governmentTypes = <<sCity>>

\* C12: the display label is the unified label when the notes carry the
\* marker, else 'City + County' when both City and County are declared, else
\* the first declared type, else 'Other Public Agency'.
C12_LabelOrder ==
    IsRecord(normalized) =>
        normalized.displayGovernmentType =
            IF NotesCarryMarker(raw) THEN sUnifiedLabel
            ELSE IF Declares(raw, sCity) /\ Declares(raw, sCounty) THEN sCityPlusCounty
            ELSE IF Len(normalized.governmentTypes) > 0 THEN normalized.governmentTypes[1]
            ELSE sOtherPublicAgency

C12_Witness ==
    /\ IsRecord(normalized)
    /\ NotesCarryMarker(raw)
    /\ Declares(raw, sCity) /\ Declares(raw, sCounty)
    /\ normalized.displayGovernmentType = sUnifiedLabel

\* the record's identifier is canonical: digits only, of the width of its type
CanonicalId ==
    /\ IsRecord(normalized)
    /\ IsDigits(normalized.jurisdictionId)
    /\ Len(normalized.jurisdictionId) = (IF DeclaredPureCounty(raw) THEN 5 ELSE 7)

\* normalizeIdForType applied again to the identifier it produced
Renormalized ==
    normalizeIdForType(normalized.jurisdictionId, trimmedOrEmpty(raw.GovernmentType))

\* C21 as stated: normalizing an already-canonical identifier again, with the
\* same declared type, pads it again and yields a different string.
C21_ReapplicationChanges ==
    CanonicalId => Renormalized # normalized.jurisdictionId

\* C21 amended: normalizing an already-canonical identifier again, with the
\* same declared type, returns it unchanged (padStart pads to a width).
C21_ReapplicationStable ==
    CanonicalId => Renormalized = normalized.jurisdictionId

\* a short raw identifier was padded, and the second application is a no-op
C21_Witness ==
    /\ CanonicalId
    /\ Len(normalizeId(RawIdOf(raw))) < Len(normalized.jurisdictionId)
    /\ Renormalized = normalized.jurisdictionId

\* the cleaned identifier normalizeRow's call of normalizeIdForType works on
CleanedId == normalizeId(RawIdOf(raw))

\* C22: the cleaned identifier has no leading apostrophe and no leading or
\* trailing white space, whatever the raw cell holds.
C22_CleanedIsBare ==
    (normalized # Pending /\ CleanedId # <<>>) =>
        /\ CleanedId[1] # "'"
        /\ ~IsSpace(CleanedId[1])
        /\ ~IsSpace(CleanedId[Len(CleanedId)])

----------------------------------------------------------------------------
(* SpecJoin: one USMap over a dataset and filter drawn at Init, its boundary  *)
(* fetch answered with a collection drawn from BoundaryCollections           *)

Row(name, id, govType, notes, pop, lat, lon) ==
    [ Jurisdiction |-> name, JurisdictionID |-> id, URL |-> <<"u">>,
      PopulationSize |-> pop, GovernmentType |-> govType, Notes |-> notes,
      Latitude |-> lat, Longitude |-> lon ]

SampleRows ==
    << Row(<<"D","C">>, <<"4","8","1","1","3">>, sCounty, Undefined, <<"L">>,
           Undefined, Undefined),
       Row(<<"D","a">>, <<"4","8","1","9","0","0","0">>, sCity, Undefined, <<"L">>,
           Undefined, Undefined),
       Row(<<"D","e">>, <<"'","8","2","0","0","0","0">>, sCity \o <<",", " ">> \o sCounty,
           sUnifiedMarker, <<"L">>, Undefined, Undefined),
       Row(<<"I","r">>, <<"4","8","1","1","3","0","0">>, sCity, Undefined, <<"S">>,
           Undefined, Undefined),
       Row(<<"H","o">>, <<"1","5","7","1","5","5","0">>, sCity, Undefined, <<"S">>,
           Undefined, Undefined),
       Row(<<"H","C">>, <<"4","8","2","0","1">>, sCounty, Undefined, <<"S">>,
           Undefined, Undefined),
       Row(<<"A","u">>, <<"4","8","0","5","0","0","0">>, sCity, Undefined, <<"L">>,
           <<"3","0">>, <<"-","9","7">>),
       Row(<<"W","D">>, <<"1","2","3">>, <<"S","p","e","c","i","a","l">>, Undefined,
           <<>>, Undefined, Undefined) >>

RECURSIVE pickRows(_, _, _)
pickRows(rows, S, i) ==
    IF i > Len(rows) THEN <<>>
    ELSE (IF i \in S THEN <<rows[i]>> ELSE <<>>) \o pickRows(rows, S, i + 1)

Datasets ==
    { loadDashboardData(pickRows(SampleRows, S, 1)) :
        S \in {T \in SUBSET (1..Len(SampleRows)) : Cardinality(T) <= MaxRecords} }

Ring(w, s) == << <<w, s>>, <<w + 1, s>>, <<w + 1, s + 1>>, <<w, s>> >>
Polygon(w, s) == [type |-> "Polygon", coordinates |-> <<Ring(w, s)>>]
MultiPolygon(w, s) ==
    [type |-> "MultiPolygon", coordinates |-> << <<Ring(w, s)>>, <<Ring(w + 2, s)>> >>]
BoundaryFeature(id, name, geometry) ==
    [id |-> id, properties |-> [name |-> name], geometry |-> geometry]

BoundaryFeatures ==
    { BoundaryFeature(<<"4","8","0","0","1">>, <<"A","n">>, Polygon(-96, 31)),
      BoundaryFeature(<<"4","8","1","1","3">>, <<"D","a">>, Polygon(-97, 32)),
      BoundaryFeature(<<"8","0","3","1">>, <<"D","e">>, Polygon(-105, 39)),
      BoundaryFeature(<<"1","5","0","0","1">>, <<"H","a">>, MultiPolygon(-156, 19)),
      BoundaryFeature(<<"4","8","2","0","1">>, <<"H","r">>, MultiPolygon(-95, 29)) }

BoundaryCollections ==
    { [type |-> "FeatureCollection", features |-> fs] :
        fs \in { q \in UNION {[1..n -> BoundaryFeatures] : n \in 0..MaxFeatures} :
                   \A i, j \in 1..Len(q) : i # j => q[i] # q[j] } }

InitJoin ==
    /\ raw = Undefined
    /\ normalized = Pending
    /\ warnings = <<>>
    /\ data \in Datasets
    /\ appliedGovType \in GovernmentTypeFilter
    /\ appliedPopSizes \in SUBSET populationOptions(data)
    /\ mounted = FALSE
    /\ countiesData = Null
    /\ citiesData = <<>>
    /\ loading = TRUE
    /\ inflight = {}
    /\ consoleLog = <<>>
    /\ started = 0
    /\ lastLoad = Null
    /\ FeedIdle
    /\ pendingGovType = appliedGovType
    /\ pendingPopSizes = appliedPopSizes
    /\ SelectionIdle
    /\ LoaderIdle

NextJoin ==
    \/ MountMap
    \/ \E load \in inflight, geojson \in BoundaryCollections : GeoResolve(load, geojson)
    \/ \E load \in inflight : GeoFail(load)

SpecJoin == InitJoin /\ [][NextJoin]_vars

----------------------------------------------------------------------------
(* Properties of a completed boundary load (SpecJoin) *)

LoadDone == lastLoad # Null /\ lastLoad.outcome = "ok"

LoadIds == Range(lastLoad.hasDataIds)
LoadFeatures == lastLoad.geojson.features
Markers == Range(citiesData)
Polygons == Range(countiesData.features)

\* indices of the boundary features of the state an identifier begins with
StateFeatureIndices(id) ==
    { i \in 1..Len(LoadFeatures) :
        SubSeq(padStart(LoadFeatures[i].id, 5), 1, 2) = SubSeq(id, 1, 2) }

FirstStateFeature(id) ==
    LoadFeatures[CHOOSE i \in StateFeatureIndices(id) :
                     \A j \in StateFeatureIndices(id) : i <= j]

\* outer ring of a feature: first ring of a Polygon, first ring of the first
\* polygon of a MultiPolygon
OuterRing(feature) ==
    IF feature.geometry.type = "Polygon" THEN feature.geometry.coordinates[1]
    ELSE feature.geometry.coordinates[1][1]

AtOuterRingMean(marker, feature) ==
    LET ring == OuterRing(feature)
    IN  /\ SameNumber(marker.geometry.coordinates[1],
                      <<sumOf([i \in 1..Len(ring) |-> ring[i][1]]), Len(ring)>>)
        /\ SameNumber(marker.geometry.coordinates[2],
                      <<sumOf([i \in 1..Len(ring) |-> ring[i][2]]), Len(ring)>>)

HasCoordinates(rec) == rec.latitude # NoNumber /\ rec.longitude # NoNumber

IdHasCoordinates(id) ==
    \E rec \in Range(lastLoad.allData) : rec.jurisdictionId = id /\ HasCoordinates(rec)

MarkerOf(id) == {m \in Markers : m.properties.CSV_ID = id}
PolygonOf(id) == {f \in Polygons : f.properties.CSV_ID = id}

DropEntries ==
    { i \in 1..Len(lastLoad.log) : lastLoad.log[i].msg = "No parent county found for city" }

ReportedDropped(id) == \E i \in DropEntries : lastLoad.log[i].ids[1] = id

\* C3: a 7-digit identifier without coordinates is placed from its 2-digit
\* state prefix alone: its marker is computed from the first boundary feature
\* in iteration order whose padded id starts with the state code, never from
\* a county looked up by the identifier's first five digits.
C3_PlacedByStatePrefixOnly ==
    LoadDone =>
        \A m \in Markers :
            (Len(m.properties.CSV_ID) = 7 /\ ~IdHasCoordinates(m.properties.CSV_ID)) =>
                /\ StateFeatureIndices(m.properties.CSV_ID) # {}
                /\ AtOuterRingMean(m, FirstStateFeature(m.properties.CSV_ID))

\* C4: every 7-digit identifier whose state has at least one boundary feature
\* gets a point feature, for Polygon and MultiPolygon geometry alike.
C4_CityInStateGetsMarker ==
    LoadDone =>
        \A id \in LoadIds :
            (Len(id) = 7 /\ StateFeatureIndices(id) # {}) =>
                \E m \in MarkerOf(id) : m.geometry.type = "Point"

\* C5: a record with a 7-digit identifier and finite latitude and longitude
\* gets a point feature at exactly (longitude, latitude).
C5_CoordinatesTakePrecedence ==
    LoadDone =>
        \A rec \in Range(lastLoad.allData) :
            (Len(rec.jurisdictionId) = 7 /\ HasCoordinates(rec)) =>
                \E m \in MarkerOf(rec.jurisdictionId) :
                    /\ SameNumber(m.geometry.coordinates[1], <<rec.longitude[1], 1>>)
                    /\ SameNumber(m.geometry.coordinates[2], <<rec.latitude[1], 1>>)

\* C6: after a completed load every identifier of hasDataIds is placed (tags
\* a rendered polygon or has a marker) or was reported dropped by a log
\* entry naming it.
C6_NoSilentLoss ==
    LoadDone =>
        \A id \in LoadIds :
            PolygonOf(id) # {} \/ MarkerOf(id) # {} \/ ReportedDropped(id)

\* C7: for every completed load, the number of identifiers equals the number
\* of placed features (polygons plus markers) plus the number of logged drops.
C7_DroppedCountBalance ==
    LoadDone =>
        Len(lastLoad.hasDataIds) =
            Len(countiesData.features) + Len(citiesData) + Cardinality(DropEntries)

\* the tag C8 expects on boundary feature i: its padded id when that is in
\* hasDataIds, else the padded id followed by "00" when that is, else none
ExpectedTag(i) ==
    LET padded == padStart(LoadFeatures[i].id, 5)
    IN  IF padded \in LoadIds THEN padded
        ELSE IF (padded \o <<"0", "0">>) \in LoadIds THEN padded \o <<"0", "0">>
        ELSE Undefined

RenderedAs(i) ==
    { f \in Polygons : f.id = LoadFeatures[i].id /\ f.geometry = LoadFeatures[i].geometry }

Reorderings(features) ==
    {q \in [1..Len(features) -> Range(features)] : Range(q) = Range(features)}

\* the markers loadGeoData builds for the identifiers without coordinates
MarkersWithoutCoordinates(features) ==
    SelectSeq(cityFeaturesOf(cityIdsOf(lastLoad.hasDataIds), features, lastLoad.allData),
              LAMBDA m : ~IdHasCoordinates(m.properties.CSV_ID))

\* C23: the marker of a 7-digit identifier without coordinates does not
\* depend on the order of the boundary features: every reordering of the
\* fetched collection yields the same markers.
C23_PlacementIgnoresOrder ==
    LoadDone =>
        \A q \in Reorderings(LoadFeatures) :
            MarkersWithoutCoordinates(q) = MarkersWithoutCoordinates(LoadFeatures)

\* the feature loadGeoData places an identifier in: the county of its first
\* five digits when the collection has it, else the first feature of its state
CountyIndices(id) ==
    { i \in 1..Len(LoadFeatures) : padStart(LoadFeatures[i].id, 5) = SubSeq(id, 1, 5) }

SelectedFeature(id) ==
    LET pool == IF CountyIndices(id) # {} THEN CountyIndices(id)
                ELSE StateFeatureIndices(id)
    IN  LoadFeatures[CHOOSE i \in pool : \A j \in pool : i <= j]

\* C24: a city marker sits at the mean longitude and the mean latitude of all
\* vertices of the outer ring of the polygon selected for it.
C24_MarkerAtRingMean ==
    LoadDone =>
        \A m \in Markers :
            /\ CountyIndices(m.properties.CSV_ID) \cup
                   StateFeatureIndices(m.properties.CSV_ID) # {}
            /\ AtOuterRingMean(m, SelectedFeature(m.properties.CSV_ID))

\* a marker placed in the first feature of its state, its own county missing
C24_Witness ==
    /\ LoadDone
    /\ \E m \in Markers :
           /\ CountyIndices(m.properties.CSV_ID) = {}
           /\ Len(LoadFeatures) = 2
           /\ AtOuterRingMean(m, LoadFeatures[2])
           /\ ~AtOuterRingMean(m, LoadFeatures[1])

\* C30: every city marker is computed from a boundary feature of the state
\* its identifier begins with, carries a 7-character identifier of
\* hasDataIds, and no identifier has two markers.
C30_MarkerInOwnState ==
    LoadDone =>
        /\ \A k \in 1..Len(citiesData) :
               /\ Len(citiesData[k].properties.CSV_ID) = 7
               /\ citiesData[k].properties.CSV_ID \in LoadIds
               /\ \E i \in StateFeatureIndices(citiesData[k].properties.CSV_ID) :
                      AtOuterRingMean(citiesData[k], LoadFeatures[i])
        /\ \A k, l \in 1..Len(citiesData) :
               citiesData[k].properties.CSV_ID = citiesData[l].properties.CSV_ID => k = l

\* two markers of one load, while a feature of another state is in the collection
C30_Witness ==
    /\ LoadDone
    /\ Len(citiesData) = 2
    /\ \E i \in 1..Len(LoadFeatures) :
           i \notin StateFeatureIndices(citiesData[1].properties.CSV_ID)

----------------------------------------------------------------------------
(* SpecFeed: the live-feed App. loadData is called on mount, by the 60 s     *)
(* interval and by the Refresh button; each call is suspended at             *)
(* fetchDashboardData and later resolves with the parsed rows or throws.     *)
(* The USMap child of this App is followed in SpecJoin.                      *)

\* the advisory string of setError, held in a record so that it can be told
\* from null
sErrorAdvisory ==
    [ message |->
        "Unable to load live dashboard data. Showing the last successful load if available." ]

\* normalizeRow of the feed loader: the identifier is only trimmed
normalizeRowFeed(r) ==
    LET jurisdiction == trimmedOrEmpty(r.Jurisdiction)
        jurisdictionId == trim(IF r.JurisdictionID = Undefined THEN <<>>
                               ELSE r.JurisdictionID)
        url == trimmedOrEmpty(r.URL)
        populationSize == trimmedOrEmpty(r.PopulationSize)
        governmentTypeRaw == trimmedOrEmpty(r.GovernmentType)
        notes == trimmedOrEmpty(r.Notes)
        governmentTypes == governmentTypesOf(governmentTypeRaw)
    IN  IF jurisdictionId = <<>> \/ url = <<>> THEN Null
        ELSE [ jurisdiction |-> jurisdiction,
               jurisdictionId |-> jurisdictionId,
               url |-> url,
               populationSize |-> populationSize,
               governmentTypeRaw |-> governmentTypeRaw,
               governmentTypes |-> governmentTypes,
               isUnified |-> isUnified(governmentTypes, notes),
               displayGovernmentType |-> displayGovernmentType(governmentTypes, notes),
               notes |-> notes ]

\* the records fetchDashboardData returns when the response parses to rows
RECURSIVE fetchDashboardData(_)
fetchDashboardData(rows) ==
    IF rows = <<>> THEN <<>>
    ELSE LET rec == normalizeRowFeed(Head(rows))
         IN  (IF rec = Null THEN <<>> ELSE <<rec>>) \o fetchDashboardData(Tail(rows))

\* the parsed rows a feed response may hold
FeedResponses == { pickRows(SampleRows, S, 1) : S \in {{}, {1, 2}, {2, 3, 8}} }

viewVars == <<appliedGovType, appliedPopSizes, mounted, countiesData, citiesData,
              loading, inflight, consoleLog, started, lastLoad>>

\* the settle history so far (empty before the first loadData call settles)
FeedOrder == IF lastFeed = Null THEN <<>> ELSE lastFeed.order
FeedFailures == IF lastFeed = Null THEN 0 ELSE lastFeed.failures

\* loadData(showSpinner) up to its await
StartLoadData(showSpinner, kind) ==
    /\ feedStarted < MaxFeedLoads
    /\ refreshing' = (showSpinner \/ refreshing)
    /\ feedStarted' = feedStarted + 1
    /\ feedInflight' = feedInflight \cup
           {[n |-> feedStarted + 1, showSpinner |-> showSpinner, kind |-> kind]}
    /\ UNCHANGED <<data, error, lastUpdated, lastFeed>>
    /\ UNCHANGED <<rowVars, viewVars, pendVars, selVars, loadVars>>

\* the mount effect: void loadData(), then setInterval
MountApp ==
    /\ feedStarted = 0
    /\ StartLoadData(TRUE, "initial")

\* the interval callback: void loadData(false)
IntervalTick ==
    /\ feedStarted > 0
    /\ StartLoadData(FALSE, "periodic")

\* a Refresh button that stays enabled while refreshing
RefreshClickAlwaysEnabled ==
    /\ feedStarted > 0
    /\ StartLoadData(TRUE, "manual")

\* the Refresh button, disabled while refreshing
RefreshClick ==
    /\ feedStarted > 0
    /\ ~refreshing
    /\ StartLoadData(TRUE, "manual")

\* a catch block that reports only the failure of the most recently started call
advisoryAfterFailureNewestOnly(load) ==
    IF load.n = feedStarted THEN sErrorAdvisory ELSE error

\* the advisory left by the catch block: setError(...)
advisoryAfterFailure(load) == sErrorAdvisory

\* a resolve that is applied only by the most recently started call
FeedResolveNewestOnly(load, rows) ==
    /\ load \in feedInflight
    /\ data' = IF load.n = feedStarted THEN fetchDashboardData(rows) ELSE data
    /\ lastUpdated' = <<Len(FeedOrder) + 1>>
    /\ error' = Null
    /\ refreshing' = (refreshing /\ ~load.showSpinner)
    /\ feedInflight' = feedInflight \ {load}
    /\ lastFeed' = [ outcome |-> "ok", n |-> load.n, kind |-> load.kind,
                     before |-> data, failures |-> 0,
                     order |-> Append(FeedOrder,
                                      [n |-> load.n, outcome |-> "ok",
                                       records |-> fetchDashboardData(rows)]) ]
    /\ UNCHANGED <<feedStarted, rowVars, viewVars, pendVars, selVars, loadVars>>

\* fetchDashboardData resolves: the try block after the await, then finally
FeedResolve(load, rows) ==
    /\ load \in feedInflight
    /\ data' = fetchDashboardData(rows)
    /\ lastUpdated' = <<Len(FeedOrder) + 1>>
    /\ error' = Null
    /\ refreshing' = (refreshing /\ ~load.showSpinner)
    /\ feedInflight' = feedInflight \ {load}
    /\ lastFeed' = [ outcome |-> "ok", n |-> load.n, kind |-> load.kind,
                     before |-> data, failures |-> 0,
                     order |-> Append(FeedOrder,
                                      [n |-> load.n, outcome |-> "ok",
                                       records |-> fetchDashboardData(rows)]) ]
    /\ UNCHANGED <<feedStarted, rowVars, viewVars, pendVars, selVars, loadVars>>

\* a catch block that also empties the record set
FeedFailClearing(load) ==
    /\ load \in feedInflight
    /\ data' = <<>>
    /\ error' = sErrorAdvisory
    /\ refreshing' = (refreshing /\ ~load.showSpinner)
    /\ feedInflight' = feedInflight \ {load}
    /\ lastFeed' = [ outcome |-> "failed", n |-> load.n, kind |-> load.kind,
                     before |-> data, failures |-> FeedFailures + 1,
                     order |-> Append(FeedOrder,
                                      [n |-> load.n, outcome |-> "failed",
                                       records |-> <<>>]) ]
    /\ UNCHANGED <<lastUpdated, feedStarted, rowVars, viewVars, pendVars, selVars,
                   loadVars>>

\* fetchDashboardData throws: the catch block, then finally
FeedFail(load) ==
    /\ load \in feedInflight
    /\ error' = advisoryAfterFailure(load)
    /\ refreshing' = (refreshing /\ ~load.showSpinner)
    /\ feedInflight' = feedInflight \ {load}
    /\ lastFeed' = [ outcome |-> "failed", n |-> load.n, kind |-> load.kind,
                     before |-> data, failures |-> FeedFailures + 1,
                     order |-> Append(FeedOrder,
                                      [n |-> load.n, outcome |-> "failed",
                                       records |-> <<>>]) ]
    /\ UNCHANGED <<data, lastUpdated, feedStarted, rowVars, viewVars, pendVars,
                   selVars, loadVars>>

InitFeed ==
    /\ raw = Undefined
    /\ normalized = Pending
    /\ warnings = <<>>
    /\ MapIdle
    /\ FeedIdle
    /\ pendingGovType = <<>>
    /\ pendingPopSizes = {}
    /\ SelectionIdle
    /\ LoaderIdle

NextFeed ==
    \/ MountApp
    \/ IntervalTick
    \/ RefreshClick
    \/ \E load \in feedInflight, rows \in FeedResponses : FeedResolve(load, rows)
    \/ \E load \in feedInflight : FeedFail(load)

SpecFeed == InitFeed /\ [][NextFeed]_vars

\* positions of the successful loads in the settle history
OkPositions == {i \in 1..Len(FeedOrder) : FeedOrder[i].outcome = "ok"}

\* the record set of the successful load that resolved last ([] when none has)
LastSuccessfulRecords ==
    IF OkPositions = {} THEN <<>>
    ELSE FeedOrder[CHOOSE i \in OkPositions : \A j \in OkPositions : j <= i].records

C14_LastResolvedWins ==
    (feedInflight = {} /\ OkPositions # {}) => data = LastSuccessfulRecords

\* two successful loads resolved in the opposite order of their start
C14_Witness ==
    /\ feedInflight = {}
    /\ \E i, j \in OkPositions :
           /\ i < j
           /\ \A k \in OkPositions : k <= j
           /\ FeedOrder[i].n > FeedOrder[j].n
           /\ FeedOrder[i].records # FeedOrder[j].records
           /\ data = FeedOrder[j].records

----------------------------------------------------------------------------
(* SpecMap: the snapshot App with its filter controls above one USMap. Every *)
(* change of the applied filters re-renders USMap with new hasDataIds and    *)
(* allData, which runs its effect again; loadGeoData calls are not cancelled *)
(* and may settle in any order.                                              *)

\* const hasActiveFilters / hasPendingChanges
hasActiveFilters == appliedGovType # <<>> \/ appliedPopSizes # {}
hasPendingChanges ==
    pendingGovType # appliedGovType \/ pendingPopSizes # appliedPopSizes

\* the options of the government-type select
governmentOptions(rows) ==
    {sCity, sCounty} \cup
    (IF \E i \in 1..Len(rows) : /\ sCity \notin Range(rows[i].governmentTypes)
                                 /\ sCounty \notin Range(rows[i].governmentTypes)
     THEN {sOtherPublicAgency} ELSE {})

\* onChange of the government-type select
SetPendingGovType(g) ==
    /\ mounted
    /\ g \in {<<>>} \cup governmentOptions(data)
    /\ g # pendingGovType
    /\ pendingGovType' = g
    /\ UNCHANGED <<pendingPopSizes, rowVars, mapVars, feedVars, selVars, loadVars>>

\* a checkbox handler that writes the applied sizes as well
togglePopulationFilterLive(value) ==
    /\ mounted
    /\ value \in populationOptions(data)
    /\ pendingPopSizes' = IF value \in pendingPopSizes
                          THEN pendingPopSizes \ {value}
                          ELSE pendingPopSizes \cup {value}
    /\ appliedPopSizes' = pendingPopSizes'
    /\ UNCHANGED <<pendingGovType, rowVars, data, appliedGovType, mounted, countiesData,
                   citiesData, loading, inflight, consoleLog, started, lastLoad,
                   feedVars, selVars, loadVars>>

\* onChange of a population-size checkbox
togglePopulationFilter(value) ==
    /\ mounted
    /\ value \in populationOptions(data)
    /\ pendingPopSizes' = IF value \in pendingPopSizes
                          THEN pendingPopSizes \ {value}
                          ELSE pendingPopSizes \cup {value}
    /\ UNCHANGED <<pendingGovType, rowVars, mapVars, feedVars, selVars, loadVars>>

\* the Apply Filters button, disabled without pending changes
applyFilters ==
    /\ mounted
    /\ hasPendingChanges
    /\ appliedGovType' = pendingGovType
    /\ appliedPopSizes' = pendingPopSizes
    /\ UNCHANGED <<data, mounted, pendVars>>
    /\ RunMapEffect
    /\ UNCHANGED <<rowVars, feedVars, selVars, loadVars, countiesData, citiesData,
                   lastLoad>>

\* the Clear All button
clearFilters ==
    /\ mounted
    /\ hasActiveFilters \/ pendingPopSizes # {} \/ pendingGovType # <<>>
    /\ pendingGovType' = <<>>
    /\ pendingPopSizes' = {}
    /\ appliedGovType' = <<>>
    /\ appliedPopSizes' = {}
    /\ UNCHANGED <<data, mounted>>
    /\ RunMapEffect
    /\ UNCHANGED <<rowVars, feedVars, selVars, loadVars, countiesData, citiesData,
                   lastLoad>>

\* the remove button of the government-type tag
RemoveGovTypeTag ==
    /\ mounted
    /\ appliedGovType # <<>>
    /\ pendingGovType' = <<>>
    /\ appliedGovType' = <<>>
    /\ UNCHANGED <<data, mounted, pendingPopSizes, appliedPopSizes>>
    /\ RunMapEffect
    /\ UNCHANGED <<rowVars, feedVars, selVars, loadVars, countiesData, citiesData,
                   lastLoad>>

\* the remove button of a population-size tag
RemovePopSizeTag(size) ==
    /\ mounted
    /\ size \in appliedPopSizes
    /\ appliedPopSizes' = appliedPopSizes \ {size}
    /\ pendingPopSizes' = appliedPopSizes \ {size}
    /\ UNCHANGED <<data, mounted, pendingGovType, appliedGovType>>
    /\ RunMapEffect
    /\ UNCHANGED <<rowVars, feedVars, selVars, loadVars, countiesData, citiesData,
                   lastLoad>>

\* the snapshot behind SpecMap: one county and one city of that county
MapDatasets == { loadDashboardData(pickRows(SampleRows, {1, 4}, 1)) }

\* the county boundary file every loadGeoData call fetches
CountyBoundaries ==
    [ type |-> "FeatureCollection",
      features |-> << BoundaryFeature(<<"4","8","1","1","3">>, <<"D","a">>,
                                      Polygon(-97, 32)),
                      BoundaryFeature(<<"4","8","2","0","1">>, <<"H","r">>,
                                      MultiPolygon(-95, 29)) >> ]

InitMap ==
    /\ raw = Undefined
    /\ normalized = Pending
    /\ warnings = <<>>
    /\ data \in MapDatasets
    /\ appliedGovType = <<>>
    /\ appliedPopSizes = {}
    /\ mounted = FALSE
    /\ countiesData = Null
    /\ citiesData = <<>>
    /\ loading = TRUE
    /\ inflight = {}
    /\ consoleLog = <<>>
    /\ started = 0
    /\ lastLoad = Null
    /\ FeedIdle
    /\ pendingGovType = <<>>
    /\ pendingPopSizes = {}
    /\ SelectionIdle
    /\ LoaderIdle

NextMap ==
    \/ MountMap
    \/ \E g \in GovernmentTypeFilter : SetPendingGovType(g)
    \/ \E value \in populationOptions(data) : togglePopulationFilter(value)
    \/ applyFilters
    \/ clearFilters
    \/ RemoveGovTypeTag
    \/ \E size \in appliedPopSizes : RemovePopSizeTag(size)
    \/ \E load \in inflight : GeoResolve(load, CountyBoundaries)
    \/ \E load \in inflight : GeoFail(load)

SpecMap == InitMap /\ [][NextMap]_vars

\* what the map shows: nothing while the loading placeholder is rendered
ShownPolygons ==
    IF loading \/ countiesData = Null THEN <<>> ELSE countiesData.features
ShownMarkers == IF loading THEN <<>> ELSE citiesData

\* no loadGeoData call has failed so far
NoBoundaryFailure ==
    \A i \in 1..Len(consoleLog) : consoleLog[i].msg # "Error loading GeoJSON"

\* C15: once no boundary fetch is in flight and all of them resolved
\* successfully, the polygons and markers shown are the join of the current
\* hasDataIds (and the current filtered rows), not of an earlier filter state.
\* Stated for a non-empty hasDataIds, for which the effect does start a load.
C15_ShownJoinIsCurrent ==
    (mounted /\ inflight = {} /\ NoBoundaryFailure /\ Len(hasDataIds) > 0) =>
        /\ ShownPolygons =
               filteredFeaturesOf(CountyBoundaries.features,
                                  idMatchMapOf(CountyBoundaries.features), hasDataIds)
        /\ ShownMarkers =
               cityFeaturesOf(cityIdsOf(hasDataIds), CountyBoundaries.features,
                              filteredRows)

\* C16: after a failed boundary fetch the failure is logged and the map shows
\* no county polygon and no city marker until a later load succeeds.
C16_FailureShowsNothing ==
    (lastLoad # Null /\ lastLoad.outcome = "failed") =>
        /\ ~NoBoundaryFailure
        /\ ShownPolygons = <<>>
        /\ ShownMarkers = <<>>

----------------------------------------------------------------------------
(* SpecClick: the snapshot App once its USMap has loaded; the user clicks    *)
(* county polygons and city markers, closes the modal and edits the table    *)
(* of selected jurisdictions.                                                *)

\* a click handler that keeps only the first matching row
handleFeatureClickFirstMatch(geoid, name) ==
    /\ selectedGEOID' = geoid
    /\ selectedName' = name
    /\ selectedFeatureRows' =
           LET matches == SelectSeq(filteredRows, LAMBDA row : row.jurisdictionId = geoid)
           IN  IF matches = <<>> THEN <<>> ELSE <<matches[1]>>
    /\ selectedJurisdictions' = selectedJurisdictions \cup {geoid}
    /\ modalOpen' = TRUE
    /\ clicks' = clicks + 1
    /\ UNCHANGED <<rowVars, mapVars, feedVars, pendVars, loadVars>>

\* const handleFeatureClick = (geoid, name) => { ... }
handleFeatureClick(geoid, name) ==
    /\ selectedGEOID' = geoid
    /\ selectedName' = name
    /\ selectedFeatureRows' =
           SelectSeq(filteredRows, LAMBDA row : row.jurisdictionId = geoid)
    /\ selectedJurisdictions' = selectedJurisdictions \cup {geoid}
    /\ modalOpen' = TRUE
    /\ clicks' = clicks + 1
    /\ UNCHANGED <<rowVars, mapVars, feedVars, pendVars, loadVars>>

\* the map is rendered and not covered by the modal
MapClickable == mounted /\ ~loading /\ ~modalOpen /\ clicks < MaxClicks

\* the click handler onEachFeature binds to a county polygon
CountyClick(feature) ==
    /\ MapClickable
    /\ countiesData # Null
    /\ feature \in Range(countiesData.features)
    /\ LET csvId == feature.properties.CSV_ID
           found == {i \in 1..Len(filteredRows) :
                        filteredRows[i].jurisdictionId = csvId}
           countyRecord == filteredRows[firstOf(found)]
           name == IF found # {} /\ countyRecord.jurisdiction # <<>>
                   THEN countyRecord.jurisdiction
                   ELSE IF feature.properties.name # <<>>
                        THEN feature.properties.name
                        ELSE sCounty
       IN  handleFeatureClick(csvId, name)

\* the click handler of a city CircleMarker
CityClick(cityFeature) ==
    /\ MapClickable
    /\ cityFeature \in Range(citiesData)
    /\ cityFeature.geometry.type = "Point"
    /\ handleFeatureClick(cityFeature.properties.CSV_ID, cityFeature.properties.name)

\* the Close button of the modal
CloseModal ==
    /\ modalOpen
    /\ modalOpen' = FALSE
    /\ UNCHANGED <<selectedJurisdictions, selectedGEOID, selectedName,
                   selectedFeatureRows, clicks>>
    /\ UNCHANGED <<rowVars, mapVars, feedVars, pendVars, loadVars>>

\* the Clear selections button
clearSelectedQueries ==
    /\ ~modalOpen
    /\ selectedJurisdictions # {}
    /\ selectedJurisdictions' = {}
    /\ UNCHANGED <<selectedGEOID, selectedName, selectedFeatureRows, modalOpen, clicks>>
    /\ UNCHANGED <<rowVars, mapVars, feedVars, pendVars, loadVars>>

\* the Remove button of a row of the selected-jurisdictions table
removeSelectedQuery(geoid) ==
    /\ ~modalOpen
    /\ geoid \in selectedJurisdictions
    /\ \E i \in 1..Len(data) : data[i].jurisdictionId = geoid
    /\ selectedJurisdictions' = selectedJurisdictions \ {geoid}
    /\ UNCHANGED <<selectedGEOID, selectedName, selectedFeatureRows, modalOpen, clicks>>
    /\ UNCHANGED <<rowVars, mapVars, feedVars, pendVars, loadVars>>

\* two rows of one county, a city of that county and a special district
ClickRows ==
    << Row(<<"D","C">>, <<"4","8","1","1","3">>, sCounty, Undefined, <<"L">>,
           Undefined, Undefined),
       Row(<<"D","S">>, <<"4","8","1","1","3">>, sCounty, Undefined, <<"S">>,
           Undefined, Undefined),
       Row(<<"I","r">>, <<"4","8","1","1","3","0","0">>, sCity, Undefined, <<"S">>,
           Undefined, Undefined),
       Row(<<"W","D">>, <<"4","8","2","0","1">>, <<"S","p","e","c","i","a","l">>,
           Undefined, <<>>, Undefined, Undefined) >>

ClickDatasets ==
    { loadDashboardData(pickRows(ClickRows, S, 1)) : S \in {{1, 2, 3}, {1, 2, 3, 4}} }

InitClick ==
    /\ raw = Undefined
    /\ normalized = Pending
    /\ warnings = <<>>
    /\ data \in ClickDatasets
    /\ appliedGovType \in {<<>>} \cup governmentOptions(data)
    /\ appliedPopSizes \in SUBSET populationOptions(data)
    /\ mounted = FALSE
    /\ countiesData = Null
    /\ citiesData = <<>>
    /\ loading = TRUE
    /\ inflight = {}
    /\ consoleLog = <<>>
    /\ started = 0
    /\ lastLoad = Null
    /\ FeedIdle
    /\ pendingGovType = appliedGovType
    /\ pendingPopSizes = appliedPopSizes
    /\ SelectionIdle
    /\ LoaderIdle

NextClick ==
    \/ MountMap
    \/ \E load \in inflight : GeoResolve(load, CountyBoundaries)
    \/ \E load \in inflight : GeoFail(load)
    \/ \E feature \in Range(IF countiesData = Null THEN <<>> ELSE countiesData.features) :
           CountyClick(feature)
    \/ \E cityFeature \in Range(citiesData) : CityClick(cityFeature)
    \/ CloseModal
    \/ clearSelectedQueries
    \/ \E geoid \in selectedJurisdictions : removeSelectedQuery(geoid)

SpecClick == InitClick /\ [][NextClick]_vars

\* a record passes the applied filters, as the filter panel describes them
PassesApplied(rec) ==
    LET types == Range(rec.governmentTypes)
    IN  /\ appliedGovType = sCity => sCity \in types
        /\ appliedGovType = sCounty => sCounty \in types
        /\ appliedGovType = sOtherPublicAgency => (sCity \notin types /\ sCounty \notin types)
        /\ appliedPopSizes = {} \/ rec.populationSize \in appliedPopSizes

AllIdentifiers == {data[i].jurisdictionId : i \in 1..Len(data)}

\* C18: an identifier is in hasDataIds exactly when some loaded record with
\* that identifier passes the applied government-type and population filters.
C18_HasDataIdsIffSomePasses ==
    \A id \in AllIdentifiers \cup Range(hasDataIds) :
        id \in Range(hasDataIds) <=>
            \E i \in 1..Len(data) : data[i].jurisdictionId = id /\ PassesApplied(data[i])

\* an identifier shared by a passing and a failing record is handed to the map
C18_Witness ==
    /\ mounted
    /\ \E load \in inflight : load.hasDataIds = hasDataIds
    /\ \E i, j \in 1..Len(data) :
           /\ data[i].jurisdictionId = data[j].jurisdictionId
           /\ PassesApplied(data[i])
           /\ ~PassesApplied(data[j])
           /\ data[i].jurisdictionId \in Range(hasDataIds)
    /\ \E i \in 1..Len(data) : data[i].jurisdictionId \notin Range(hasDataIds)

\* the filtered records bearing identifier g, by position
FilteredPositionsOf(g) ==
    {i \in 1..Len(filteredRows) : filteredRows[i].jurisdictionId = g}

\* C19: a click on a feature with identifier g sets the detail rows to the
\* currently filtered records whose jurisdictionId is g, all of them and no
\* other, and adds g to the selected jurisdictions.
C19_ClickSelectsMatches ==
    [][ clicks' = clicks + 1 =>
          LET g == selectedGEOID'
              rows == selectedFeatureRows'
          IN  /\ Len(rows) = Cardinality(FilteredPositionsOf(g))
              /\ \A i \in 1..Len(rows) : rows[i].jurisdictionId = g
              /\ \A i \in FilteredPositionsOf(g) : filteredRows[i] \in Range(rows)
              /\ selectedJurisdictions' = selectedJurisdictions \cup {g} ]_vars

\* a second click, on an identifier two filtered rows share
C19_Witness ==
    /\ modalOpen
    /\ clicks = 2
    /\ Len(selectedFeatureRows) = 2
    /\ Cardinality(selectedJurisdictions) = 2
    /\ \A i \in 1..Len(selectedFeatureRows) :
           selectedFeatureRows[i].jurisdictionId = selectedGEOID

----------------------------------------------------------------------------
(* SpecLoad: loadDashboardData over a whole snapshot, with its collision     *)
(* detector                                                                  *)

CollisionsLogged == 10      \* collisions.slice(0, 10)

\* nameMap after records.forEach: [name, records] entries in insertion order
RECURSIVE nameMapOf(_, _)
nameMapOf(records, acc) ==
    IF records = <<>> THEN acc
    ELSE LET name == toLowerCase(Head(records).jurisdiction)
             at == {i \in 1..Len(acc) : acc[i].name = name}
         IN  nameMapOf(Tail(records),
                       IF at = {}
                       THEN Append(acc, [name |-> name, recs |-> <<Head(records)>>])
                       ELSE [acc EXCEPT ![firstOf(at)].recs = Append(@, Head(records))])

\* .sort((a, b) => b[1].length - a[1].length): stable, larger groups first
RECURSIVE sortByGroupSize(_, _)
sortByGroupSize(entries, acc) ==
    IF entries = <<>> THEN acc
    ELSE LET e == Head(entries)
             k == Cardinality({i \in 1..Len(acc) : Len(acc[i].recs) >= Len(e.recs)})
         IN  sortByGroupSize(Tail(entries),
                             SubSeq(acc, 1, k) \o <<e>> \o SubSeq(acc, k + 1, Len(acc)))

\* the collision list left in nameMap order, its sort left out
collisionsOfUnsorted(records) ==
    SelectSeq(nameMapOf(records, <<>>), LAMBDA e : Len(e.recs) > 1)

\* const collisions = Array.from(nameMap.entries()).filter(...).sort(...)
collisionsOf(records) ==
    sortByGroupSize(SelectSeq(nameMapOf(records, <<>>), LAMBDA e : Len(e.recs) > 1), <<>>)

\* the lines the collision detector prints
collisionLogOf(report) ==
    << LogEntry("Found jurisdiction names with multiple records", <<>>, Len(report)) >>
    \o [ i \in 1..(IF Len(report) < CollisionsLogged THEN Len(report)
                     ELSE CollisionsLogged) |->
           LogEntry("has records",
                    <<report[i].name>> \o
                        [k \in 1..Len(report[i].recs) |-> report[i].recs[k].jurisdictionId],
                    Len(report[i].recs)) ]

\* the jurisdictions console.warn names, one per skipped row
RECURSIVE skippedOf(_)
skippedOf(rows) ==
    IF rows = <<>> THEN <<>>
    ELSE (IF normalizeRow(Head(rows)) = Null
          THEN <<trimmedOrEmpty(Head(rows).Jurisdiction)>> ELSE <<>>)
         \o skippedOf(Tail(rows))

\* export function loadDashboardData(), called once by the App
LoadDashboardData ==
    /\ collisions = Pending
    /\ data' = loadDashboardData(snapshot)
    /\ warnings' = warnings \o skippedOf(snapshot)
    /\ collisions' = [entries |-> collisionsOf(loadDashboardData(snapshot))]
    /\ consoleLog' = consoleLog \o collisionLogOf(collisionsOf(loadDashboardData(snapshot)))
    /\ UNCHANGED <<raw, normalized, snapshot, appliedGovType, appliedPopSizes, mounted,
                   countiesData, citiesData, loading, inflight, started, lastLoad,
                   feedVars, pendVars, selVars>>

LoadRow(name, id, url) ==
    [ Jurisdiction |-> name, JurisdictionID |-> id, URL |-> url,
      PopulationSize |-> <<"L">>, GovernmentType |-> sCity, Notes |-> Undefined,
      Latitude |-> Undefined, Longitude |-> Undefined ]

\* rows sharing a name up to letter case, sharing an identifier, lacking an
\* identifier and lacking a URL
LoadRows ==
    { LoadRow(<<"A","b">>, <<"4","8","1","9","0","0","0">>, <<"u">>),
      LoadRow(<<"a","b">>, <<"0","6","4","4","0","0","0">>, <<"v">>),
      LoadRow(<<"B">>, <<"4","8","1","9","0","0","0">>, <<"w">>),
      LoadRow(<<" ","B">>, <<" ">>, <<"x">>),
      LoadRow(<<"A","b">>, <<"4","8","0","5","0","0","0">>, <<" ">>) }

Snapshots == UNION { [1..n -> LoadRows] : n \in 0..MaxRows }

InitLoad ==
    /\ raw = Undefined
    /\ normalized = Pending
    /\ warnings = <<>>
    /\ MapIdle
    /\ FeedIdle
    /\ pendingGovType = <<>>
    /\ pendingPopSizes = {}
    /\ SelectionIdle
    /\ snapshot \in Snapshots
    /\ collisions = Pending

NextLoad == LoadDashboardData

SpecLoad == InitLoad /\ [][NextLoad]_vars

\* a cell holds at least one character that is not white space
NonEmptyCell(v) == \E k \in 1..Len(CellOf(v)) : ~IsSpace(CellOf(v)[k])

\* positions of the rows whose identifier and URL are both non-empty
KeptPositions ==
    {i \in 1..Len(snapshot) :
        NonEmptyCell(snapshot[i].JurisdictionID) /\ NonEmptyCell(snapshot[i].URL)}

\* the k-th smallest member of a set of positions
KthOf(S, k) == CHOOSE i \in S : Cardinality({j \in S : j <= i}) = k

\* C17: loadDashboardData returns one record for each row whose identifier
\* and URL are non-empty, in row order, keeping rows that share a name or an
\* identifier; the collision detector leaves the returned records alone.
C17_OneRecordPerValidRow ==
    collisions # Pending =>
        /\ Len(data) = Cardinality(KeptPositions)
        /\ \A k \in 1..Len(data) :
               k <= Cardinality(KeptPositions) =>
                   /\ data[k].jurisdiction = trim(snapshot[KthOf(KeptPositions, k)].Jurisdiction)
                   /\ data[k].url = trim(snapshot[KthOf(KeptPositions, k)].URL)

\* the records bearing a name, letter case aside, in record order
RecordsNamed(name) ==
    SelectSeq(data, LAMBDA rec : toLowerCase(rec.jurisdiction) = name)

\* the report once loadDashboardData has run
CollisionReport == collisions.entries

----------------------------------------------------------------------------
(* SpecEffect: the same App and USMap, observed from a render in which       *)
(* filters may already be applied when USMap mounts (the live App unmounts   *)
(* USMap while data is empty and mounts it again when records arrive).       *)

EffectDatasets == { loadDashboardData(pickRows(SampleRows, S, 1)) : S \in {{1}, {4}} }

InitEffect ==
    /\ raw = Undefined
    /\ normalized = Pending
    /\ warnings = <<>>
    /\ data \in EffectDatasets
    /\ appliedGovType \in {<<>>} \cup governmentOptions(data)
    /\ appliedPopSizes \in SUBSET populationOptions(data)
    /\ mounted = FALSE
    /\ countiesData = Null
    /\ citiesData = <<>>
    /\ loading = TRUE
    /\ inflight = {}
    /\ consoleLog = <<>>
    /\ started = 0
    /\ lastLoad = Null
    /\ FeedIdle
    /\ pendingGovType = appliedGovType
    /\ pendingPopSizes = appliedPopSizes
    /\ SelectionIdle
    /\ LoaderIdle

SpecEffect == InitEffect /\ [][NextMap]_vars

----------------------------------------------------------------------------
(* Claims on the filter panel and the loading flag, under SpecMap *)

\* a step of the government-type select or of a population checkbox
PendingSelectionStep ==
    \/ \E g \in GovernmentTypeFilter : SetPendingGovType(g)
    \/ \E value \in populationOptions(data) : togglePopulationFilter(value)

\* C25: a change of the pending selections leaves the applied filters,
\* filteredRows and hasDataIds as they were; applyFilters copies pending into
\* applied, after which the two are equal and hasPendingChanges is false.
C25_PendingThenApplied ==
    [][ /\ PendingSelectionStep =>
              /\ appliedGovType' = appliedGovType
              /\ appliedPopSizes' = appliedPopSizes
              /\ filteredRows' = filteredRows
              /\ hasDataIds' = hasDataIds
        /\ applyFilters =>
              /\ appliedGovType' = pendingGovType
              /\ appliedPopSizes' = pendingPopSizes
              /\ pendingGovType' = appliedGovType'
              /\ pendingPopSizes' = appliedPopSizes'
              /\ ~hasPendingChanges' ]_vars

\* filters were applied and the pending selections were changed again since
C25_Witness ==
    /\ mounted
    /\ appliedGovType # <<>>
    /\ appliedPopSizes # {}
    /\ pendingGovType # appliedGovType
    /\ pendingPopSizes # appliedPopSizes
    /\ Len(hasDataIds) > 0

\* C28: the loading flag is true whenever a boundary fetch is in flight; with
\* two overlapping loads it stays true until the last of them has settled.
C28_LoadingWhileInFlight ==
    inflight # {} => loading

----------------------------------------------------------------------------
(* Claims on the effect of USMap, under SpecEffect *)

\* C29: a render with an empty hasDataIds starts no boundary load and leaves
\* countiesData, citiesData and loading as they were, so earlier features
\* stay displayed; a map mounted with an empty set stays in the loading state.
C29_EmptySetStartsNothing ==
    [][ /\ (mounted' /\ Len(hasDataIds') = 0 /\ inflight \subseteq inflight') =>
              /\ started' = started
              /\ inflight' = inflight
              /\ countiesData' = countiesData
              /\ citiesData' = citiesData
              /\ loading' = loading
        /\ (mounted' /\ started' = 0) =>
              /\ loading'
              /\ countiesData' = Null
              /\ citiesData' = <<>> ]_vars

\* the features of the earlier filter state are shown over an empty hasDataIds
C29_Witness ==
    /\ mounted
    /\ Len(hasDataIds) = 0
    /\ inflight = {}
    /\ ~loading
    /\ LoadDone
    /\ ShownPolygons # <<>> \/ ShownMarkers # <<>>

----------------------------------------------------------------------------
(* Claims on the error advisory and the refreshing flag, under SpecFeed *)

\* C26: the error advisory is shown exactly when the most recently settled
\* feed load failed: a success clears it, a failure sets it, whichever call
\* started first.
C26_AdvisoryIffLastSettledFailed ==
    (error # Null) <=> (lastFeed # Null /\ lastFeed.outcome = "failed")

\* a failure settled after the success of a call started later: the advisory
\* is displayed over the newer records
C26_Witness ==
    /\ error = sErrorAdvisory
    /\ \E i, j \in 1..Len(FeedOrder) :
          /\ i < j
          /\ j = Len(FeedOrder)
          /\ FeedOrder[i].outcome = "ok"
          /\ FeedOrder[j].outcome = "failed"
          /\ FeedOrder[i].n > FeedOrder[j].n
          /\ \A k \in (i + 1)..j : FeedOrder[k].outcome = "failed"
          /\ data = FeedOrder[i].records
          /\ Len(data) > 0

\* C27: refreshing is true exactly while a load started with the spinner
\* (initial or manual) is in flight; a periodic load never changes it.
C27_RefreshingIffSpinnerLoadInFlight ==
    refreshing <=> (\E load \in feedInflight : load.showSpinner)

\* a spinner load has settled with a failure while a periodic load is still
\* in flight: the flag is back to false
C27_Witness ==
    /\ lastFeed # Null
    /\ lastFeed.kind \in {"initial", "manual"}
    /\ lastFeed.outcome = "failed"
    /\ ~refreshing
    /\ \E load \in feedInflight : ~load.showSpinner

====
